---- MODULE Spec2Model ----
(***************************************************************************)
(* Model of qa/alert.py: one run of the QA alert script.                   *)
(*                                                                         *)
(* The script is a single sequential process: the module body calls        *)
(* main(), main() calls get_snowflake_data() and df_check(), and the       *)
(* process ends in sys.exit.  Every statement that talks to the warehouse  *)
(* may raise; the row-set the warehouse returns and the wall clock are     *)
(* inputs chosen when the statement that reads them runs.                  *)
(*                                                                         *)
(* A row-set is a record                                                   *)
(*    columns          df.shape[1]                                         *)
(*    hasRatioCol      whether a column named ROW_EVENT_RATIO exists       *)
(*    DATE             the DATE column, one calendar date per row          *)
(*    ROW_EVENT_RATIO  that column, one value per row (<<>> if absent)     *)
(* The DATE column is always there: the query filters on it, so a table    *)
(* without it fails in cur.execute.  Ratios are counted in millionths      *)
(* (1000010 stands for 1.00001), dates are [y, m, d] records.              *)
(***************************************************************************)
EXTENDS Integers, Sequences, FiniteSets, TLC

VARIABLES pc, con, cur, df, fetched, now, flag, issues, checked,
          exc, out, exit_code, status, exitSite, attempts, calls

vars == <<pc, con, cur, df, fetched, now, flag, issues, checked,
          exc, out, exit_code, status, exitSite, attempts, calls>>

----------------------------------------------------------------------------
(* Bounds and input domains *)

MaxRows == 2

Date(y, m, d) == [y |-> y, m |-> m, d |-> d]

RowDates == {Date(2026, 10, 31), Date(2026, 11, 1), Date(2026, 12, 31)}

Clock == {Date(2026, 11, 1), Date(2026, 11, 2), Date(2027, 1, 1)}

Ratios == {999989, 999990, 1000005, 1000010, 1000020}

ColumnCounts == {15, 16, 17}

SeqsUpTo(S, n) == UNION {[1..k -> S] : k \in 0..n}

RowSets ==
    {[columns |-> c, hasRatioCol |-> h, DATE |-> ds, ROW_EVENT_RATIO |-> rs] :
        c \in ColumnCounts, h \in BOOLEAN,
        ds \in SeqsUpTo(RowDates, MaxRows), rs \in SeqsUpTo(Ratios, MaxRows)}

FetchedRowSets ==
    {r \in RowSets : Len(r.ROW_EVENT_RATIO) = (IF r.hasRatioCol THEN Len(r.DATE) ELSE 0)}

NoDf == [columns |-> 0, hasRatioCol |-> FALSE, DATE |-> <<>>, ROW_EVENT_RATIO |-> <<>>]

NoDate == Date(0, 0, 0)

FetchSteps == {"connect", "cursor", "use_role", "use_warehouse", "query",
               "fetch", "cur_close", "con_close"}

AllChecks == {"date", "columns", "ratio"}

----------------------------------------------------------------------------
(* Pure helpers *)

ExpectedColumns == 16

RatioHigh == 1000010

RatioLow == 999990

IsLeap(y) == (y % 4 = 0 /\ y % 100 # 0) \/ y % 400 = 0

DaysInMonth(y, m) ==
    IF m = 2 THEN (IF IsLeap(y) THEN 29 ELSE 28)
    ELSE IF m \in {4, 6, 9, 11} THEN 30 ELSE 31

\* datetime.now() - timedelta(days=1)
MinusOneDay(t) ==
    IF t.d > 1 THEN Date(t.y, t.m, t.d - 1)
    ELSE IF t.m > 1 THEN Date(t.y, t.m - 1, DaysInMonth(t.y, t.m - 1))
    ELSE Date(t.y - 1, 12, 31)

\* strftime('%Y-%m-%d'): the text as a tuple of digits and dashes
Strftime(t) ==
    <<t.y \div 1000, (t.y \div 100) % 10, (t.y \div 10) % 10, t.y % 10, "-",
      t.m \div 10, t.m % 10, "-", t.d \div 10, t.d % 10>>

\* Series.unique(): the distinct values in order of first appearance
RECURSIVE Unique(_)
Unique(s) ==
    IF s = <<>> THEN <<>>
    ELSE LET front == Unique(SubSeq(s, 1, Len(s) - 1))
             last  == s[Len(s)]
         IN IF \E i \in 1..Len(front) : front[i] = last
            THEN front ELSE Append(front, last)

FirstUniqueLast(s) == Unique(s)[Len(Unique(s))]

\* df['DATE'].unique()[0]
FirstUnique(s) == Unique(s)[1]

RECURSIVE SeqMax(_)
SeqMax(s) ==
    IF Len(s) = 1 THEN s[1]
    ELSE LET m == SeqMax(Tail(s)) IN IF s[1] > m THEN s[1] ELSE m

RECURSIVE SeqMin(_)
SeqMin(s) ==
    IF Len(s) = 1 THEN s[1]
    ELSE LET m == SeqMin(Tail(s)) IN IF s[1] < m THEN s[1] ELSE m

EmptyNever(d) == FALSE

\* df.empty
Empty(d) == Len(d.DATE) = 0 \/ d.columns = 0

DateFails(unique_values, yesterday_str) == unique_values # yesterday_str

ColumnsFail(n) == n # ExpectedColumns

RatioFailsOpenInterval(max_value, min_value) ==
    max_value >= RatioHigh \/ min_value <= RatioLow

RatioFails(max_value, min_value) ==
    max_value > RatioHigh \/ min_value < RatioLow

DateIssue(expected, got) == [check |-> "date", expected |-> expected, got |-> got]

ColumnsIssue(got) == [check |-> "columns", expected |-> ExpectedColumns, got |-> got]

RatioIssue(mn, mx) == [check |-> "ratio", min |-> mn, max |-> mx]

AddIssueInFront(list, issue) == <<issue>> \o list

\* issues.append(...)
AddIssue(list, issue) == Append(list, issue)

ExitCodeAlwaysZero(f) == 0

\* main's mapping of the validator's flag to its return value
ExitCodeFor(f) == IF f THEN 1 ELSE 0

\* `except Exception` catches everything but SystemExit
CaughtByExceptException(e) == e # "SystemExit"

Say(line) == out' = Append(out, line)

Count(step) == attempts' = [attempts EXCEPT ![step] = @ + 1]

----------------------------------------------------------------------------
Init ==
    /\ pc = "module"
    /\ con = "none"
    /\ cur = "none"
    /\ df = NoDf
    /\ fetched = FALSE
    /\ now = NoDate
    /\ flag = FALSE
    /\ issues = <<>>
    /\ checked = {}
    /\ exc = "none"
    /\ out = <<>>
    /\ exit_code = -1
    /\ status = -1
    /\ exitSite = "none"
    /\ attempts = [s \in FetchSteps |-> 0]
    /\ calls = {}

----------------------------------------------------------------------------
(* Module body and main() up to the fetch *)

\* exit_code = main(); main prints its first line and calls the fetcher
MainStart ==
    /\ pc = "module"
    /\ pc' = "connect"
    /\ Say([msg |-> "Connecting to Snowflake and retrieving data..."])
    /\ UNCHANGED <<con, cur, df, fetched, now, flag, issues, checked, exc,
                   exit_code, status, exitSite, attempts, calls>>

----------------------------------------------------------------------------
(* get_snowflake_data() *)

\* a statement of the try block raised: control moves to the except clause
Raised == pc' = "fetch_except" /\ exc' = "Exception"

Connect ==
    /\ pc = "connect"
    /\ Count("connect")
    /\ \/ /\ con' = "open" /\ pc' = "cursor" /\ exc' = exc
       \/ /\ con' = con /\ Raised
    /\ UNCHANGED <<cur, df, fetched, now, flag, issues, checked, out,
                   exit_code, status, exitSite, calls>>

Cursor ==
    /\ pc = "cursor"
    /\ Count("cursor")
    /\ \/ /\ cur' = "open" /\ pc' = "use_role" /\ exc' = exc
       \/ /\ cur' = cur /\ Raised
    /\ UNCHANGED <<con, df, fetched, now, flag, issues, checked, out,
                   exit_code, status, exitSite, calls>>

UseRole ==
    /\ pc = "use_role"
    /\ Count("use_role")
    /\ \/ /\ pc' = "use_warehouse" /\ exc' = exc
       \/ Raised
    /\ UNCHANGED <<con, cur, df, fetched, now, flag, issues, checked, out,
                   exit_code, status, exitSite, calls>>

UseWarehouse ==
    /\ pc = "use_warehouse"
    /\ Count("use_warehouse")
    /\ \/ /\ pc' = "query" /\ exc' = exc
       \/ Raised
    /\ UNCHANGED <<con, cur, df, fetched, now, flag, issues, checked, out,
                   exit_code, status, exitSite, calls>>

Query ==
    /\ pc = "query"
    /\ Count("query")
    /\ \/ /\ pc' = "fetch" /\ exc' = exc
       \/ Raised
    /\ UNCHANGED <<con, cur, df, fetched, now, flag, issues, checked, out,
                   exit_code, status, exitSite, calls>>

FetchPandasAll ==
    /\ pc = "fetch"
    /\ Count("fetch")
    /\ \/ /\ \E r \in FetchedRowSets : df' = r
          /\ pc' = "cur_close" /\ exc' = exc
       \/ /\ df' = df /\ Raised
    /\ UNCHANGED <<con, cur, fetched, now, flag, issues, checked, out,
                   exit_code, status, exitSite, calls>>

CurClose ==
    /\ pc = "cur_close"
    /\ Count("cur_close")
    /\ \/ /\ cur' = "closed" /\ pc' = "con_close" /\ exc' = exc
       \/ /\ cur' = cur /\ Raised
    /\ UNCHANGED <<con, df, fetched, now, flag, issues, checked, out,
                   exit_code, status, exitSite, calls>>

ConClose ==
    /\ pc = "con_close"
    /\ Count("con_close")
    /\ \/ /\ con' = "closed" /\ pc' = "fetch_return" /\ exc' = exc
       \/ /\ con' = con /\ Raised
    /\ UNCHANGED <<cur, df, fetched, now, flag, issues, checked, out,
                   exit_code, status, exitSite, calls>>

\* return df
FetchReturn ==
    /\ pc = "fetch_return"
    /\ fetched' = TRUE
    /\ pc' = "empty_check"
    /\ UNCHANGED <<con, cur, df, now, flag, issues, checked, exc, out,
                   exit_code, status, exitSite, attempts, calls>>

FetchExceptRetry ==
    /\ pc = "fetch_except"
    /\ Say([msg |-> "Error connecting to Snowflake or executing query"])
    /\ IF attempts["connect"] < 2
       THEN pc' = "connect" /\ exc' = "none"
       ELSE pc' = "unwind" /\ exc' = "SystemExit"
    /\ UNCHANGED <<con, cur, df, fetched, now, flag, issues, checked,
                   exit_code, status, exitSite, attempts, calls>>

\* except Exception as e: print(...); sys.exit(1)
FetchExcept ==
    /\ pc = "fetch_except"
    /\ Say([msg |-> "Error connecting to Snowflake or executing query"])
    /\ exc' = "SystemExit"
    /\ pc' = "unwind"
    /\ UNCHANGED <<con, cur, df, fetched, now, flag, issues, checked,
                   exit_code, status, exitSite, attempts, calls>>

----------------------------------------------------------------------------
(* main() after the fetch *)

\* if df.empty: print; return 1   else: print; flag = df_check(df)
EmptyCheck ==
    /\ pc = "empty_check"
    /\ calls' = calls \cup {"empty_test"}
    /\ IF Empty(df)
       THEN /\ Say([msg |-> "No data retrieved from Snowflake"])
            /\ exit_code' = 1
            /\ pc' = "sys_exit"
       ELSE /\ Say([msg |-> "Performing validation checks..."])
            /\ exit_code' = exit_code
            /\ pc' = "df_check"
    /\ UNCHANGED <<con, cur, df, fetched, now, flag, issues, checked, exc,
                   status, exitSite, attempts>>

----------------------------------------------------------------------------
(* df_check(df) *)

\* flag = False; issues = []; the recency check
CheckDate ==
    /\ pc = "df_check"
    /\ calls' = calls \cup {"df_check"}
    /\ \E t \in Clock :
        /\ now' = t
        /\ IF Unique(df.DATE) = <<>>
           THEN /\ exc' = "IndexError"
                /\ pc' = "unwind"
                /\ UNCHANGED <<flag, issues, checked>>
           ELSE LET yesterday_str == Strftime(MinusOneDay(t))
                    unique_values == Strftime(FirstUnique(df.DATE))
                IN /\ checked' = {"date"}
                   /\ IF DateFails(unique_values, yesterday_str)
                      THEN /\ flag' = TRUE
                           /\ issues' = AddIssue(<<>>, DateIssue(yesterday_str, unique_values))
                      ELSE /\ flag' = FALSE
                           /\ issues' = <<>>
                   /\ pc' = "check_columns"
                   /\ exc' = exc
    /\ UNCHANGED <<con, cur, df, fetched, out, exit_code, status, exitSite,
                   attempts>>

\* the column-count check
CheckColumns ==
    /\ pc = "check_columns"
    /\ checked' = checked \cup {"columns"}
    /\ IF ColumnsFail(df.columns)
       THEN /\ flag' = TRUE
            /\ issues' = AddIssue(issues, ColumnsIssue(df.columns))
       ELSE UNCHANGED <<flag, issues>>
    /\ pc' = "check_ratio"
    /\ UNCHANGED <<con, cur, df, fetched, now, exc, out, exit_code, status,
                   exitSite, attempts, calls>>

\* the ratio-bound check; df['ROW_EVENT_RATIO'] raises KeyError without the column
CheckRatio ==
    /\ pc = "check_ratio"
    /\ IF ~df.hasRatioCol
       THEN /\ exc' = "KeyError"
            /\ pc' = "unwind"
            /\ UNCHANGED <<flag, issues, checked>>
       ELSE LET max_value == SeqMax(df.ROW_EVENT_RATIO)
                min_value == SeqMin(df.ROW_EVENT_RATIO)
            IN /\ checked' = checked \cup {"ratio"}
               /\ IF RatioFails(max_value, min_value)
                  THEN /\ flag' = TRUE
                       /\ issues' = AddIssue(issues, RatioIssue(min_value, max_value))
                  ELSE UNCHANGED <<flag, issues>>
               /\ pc' = "report"
               /\ exc' = exc
    /\ UNCHANGED <<con, cur, df, fetched, now, out, exit_code, status,
                   exitSite, attempts, calls>>

\* print the issues (or the all-passed line) and return flag
Report ==
    /\ pc = "report"
    /\ IF issues # <<>>
       THEN out' = Append(out, [msg |-> "Validation checks failed:"])
                   \o [i \in 1..Len(issues) |-> [msg |-> "issue", issue |-> issues[i]]]
       ELSE Say([msg |-> "All validation checks passed"])
    /\ calls' = calls \cup {"df_check_returned"}
    /\ pc' = "verdict"
    /\ UNCHANGED <<con, cur, df, fetched, now, flag, issues, checked, exc,
                   exit_code, status, exitSite, attempts>>

----------------------------------------------------------------------------
(* main(): the verdict, the handler, and the end of the process *)

\* if flag: print; return 1   else: print; return 0
Verdict ==
    /\ pc = "verdict"
    /\ Say([msg |-> IF flag THEN "Alert: One or more validation checks failed"
                            ELSE "Success: All validation checks passed"])
    /\ exit_code' = ExitCodeFor(flag)
    /\ pc' = "sys_exit"
    /\ UNCHANGED <<con, cur, df, fetched, now, flag, issues, checked, exc,
                   status, exitSite, attempts, calls>>

\* an exception reaches main's try block: `except Exception` handles it and
\* returns 1, anything else leaves main and ends the process with its own code
Unwind ==
    /\ pc = "unwind"
    /\ IF CaughtByExceptException(exc)
       THEN /\ Say([msg |-> "Unexpected error"])
            /\ exit_code' = 1
            /\ pc' = "sys_exit"
            /\ UNCHANGED <<status, exitSite>>
       ELSE /\ status' = 1
            /\ exitSite' = "get_snowflake_data"
            /\ pc' = "exited"
            /\ UNCHANGED <<out, exit_code>>
    /\ UNCHANGED <<con, cur, df, fetched, now, flag, issues, checked, exc,
                   attempts, calls>>

\* sys.exit(exit_code)
SysExit ==
    /\ pc = "sys_exit"
    /\ status' = exit_code
    /\ exitSite' = "module"
    /\ pc' = "exited"
    /\ UNCHANGED <<con, cur, df, fetched, now, flag, issues, checked, exc,
                   out, exit_code, attempts, calls>>

Next ==
    \/ MainStart
    \/ Connect
    \/ Cursor
    \/ UseRole
    \/ UseWarehouse
    \/ Query
    \/ FetchPandasAll
    \/ CurClose
    \/ ConClose
    \/ FetchReturn
    \/ FetchExcept
    \/ EmptyCheck
    \/ CheckDate
    \/ CheckColumns
    \/ CheckRatio
    \/ Report
    \/ Verdict
    \/ Unwind
    \/ SysExit

Spec == Init /\ [][Next]_vars

----------------------------------------------------------------------------
(* Vocabulary of the properties *)

Exited == pc = "exited"

HasRows == Len(df.DATE) > 0

Said(text) == \E i \in 1..Len(out) : out[i].msg = text

Reported(check) ==
    \E i \in 1..Len(out) : out[i].msg = "issue" /\ out[i].issue.check = check

Listed(check) == \E i \in 1..Len(issues) : issues[i].check = check

NumListed(check) == Cardinality({i \in 1..Len(issues) : issues[i].check = check})

Yesterday == MinusOneDay(now)

DateIsStale == df.DATE[1] # Yesterday

ColumnsAreOff == df.columns # 16

OutOfBand(v) == v > 1000010 \/ v < 999990

RatioIsOff ==
    \E i \in 1..Len(df.ROW_EVENT_RATIO) : OutOfBand(df.ROW_EVENT_RATIO[i])

AllThreePass == ~DateIsStale /\ ~ColumnsAreOff /\ df.hasRatioCol /\ ~RatioIsOff

ValidatorCalled == "df_check" \in calls

ValidatorReturned == "df_check_returned" \in calls

InFetcher ==
    pc \in {"module", "connect", "cursor", "use_role", "use_warehouse", "query",
            "fetch", "cur_close", "con_close", "fetch_return", "fetch_except"}

FetchFailed == ~fetched /\ ~InFetcher

Rank(check) == IF check = "date" THEN 1 ELSE IF check = "columns" THEN 2 ELSE 3

----------------------------------------------------------------------------
(* Properties *)

\* C1: a run ends with status 0 exactly when the fetch succeeded, the row-set
\* has rows and the recency, column-count and ratio checks all passed; every
\* other run ends with status 1, and no run ends with another status.
ExitStatusContract ==
    Exited => /\ status \in {0, 1}
              /\ status = 0 <=> (fetched /\ HasRows /\ AllThreePass)

ExitStatusContractWitness == Exited /\ status = 0 /\ fetched /\ HasRows

\* C2: when the fetch returns a row-set without rows, the run says that no
\* data was retrieved and ends with status 1, and df_check is never called:
\* no check is evaluated and no issue is reported.
EmptyResultSkipsValidator ==
    (fetched /\ ~HasRows) =>
        /\ ~ValidatorCalled
        /\ checked = {}
        /\ issues = <<>>
        /\ \A c \in AllChecks : ~Reported(c)
        /\ pc \in {"empty_check", "sys_exit", "exited"}
        /\ pc \in {"sys_exit", "exited"} =>
              Said("No data retrieved from Snowflake") /\ exit_code = 1
        /\ Exited => status = 1

EmptyResultSkipsValidatorWitness ==
    Exited /\ fetched /\ ~HasRows /\ "empty_test" \in calls

\* C3: a failure of any statement of the fetcher is fatal: it is reported,
\* the process ends at once with status 1, no statement is attempted twice,
\* and neither the empty-result test nor the validator runs afterwards.
FetchFailureIsFatal ==
    /\ \A s \in FetchSteps : attempts[s] <= 1
    /\ FetchFailed =>
          /\ pc \in {"unwind", "exited"}
          /\ out = << [msg |-> "Connecting to Snowflake and retrieving data..."],
                      [msg |-> "Error connecting to Snowflake or executing query"] >>
          /\ calls = {}
          /\ checked = {}
          /\ Exited => status = 1

FetchFailureIsFatalWitness ==
    Exited /\ FetchFailed /\ attempts["query"] = 1 /\ attempts["fetch"] = 0

\* C4: for every row-set with rows that reaches the validator, all three
\* checks are evaluated and every failing check has its issue reported in
\* that run, whatever the other checks found.
AllChecksRunAndReport ==
    (Exited /\ ValidatorCalled /\ HasRows) =>
        /\ checked = AllChecks
        /\ DateIsStale => Reported("date")
        /\ ColumnsAreOff => Reported("columns")
        /\ RatioIsOff => Reported("ratio")

\* C5: no run ends while the connection or the cursor it opened is still
\* open.
ConnectionReleasedOnExit ==
    Exited => con # "open" /\ cur # "open"

\* C6: for every row-set with rows, the ratio check fails exactly when some
\* row's ROW_EVENT_RATIO is above 1.00001 or below 0.99999; values on either
\* bound pass, and a failing check lists one issue carrying the column's
\* minimum and maximum.
RatioBoundIsClosedInterval ==
    (ValidatorCalled /\ pc \notin {"df_check", "check_columns", "check_ratio"}) =>
        /\ Listed("ratio") <=> RatioIsOff
        /\ \A i \in 1..Len(issues) :
              issues[i].check = "ratio" =>
                 /\ \E k \in 1..Len(df.ROW_EVENT_RATIO) : df.ROW_EVENT_RATIO[k] = issues[i].min
                 /\ \E k \in 1..Len(df.ROW_EVENT_RATIO) : df.ROW_EVENT_RATIO[k] = issues[i].max
                 /\ \A k \in 1..Len(df.ROW_EVENT_RATIO) :
                       /\ issues[i].min <= df.ROW_EVENT_RATIO[k]
                       /\ df.ROW_EVENT_RATIO[k] <= issues[i].max

RatioBoundIsClosedIntervalWitness ==
    /\ Exited /\ "ratio" \in checked /\ ~Listed("ratio")
    /\ \E i \in 1..Len(df.ROW_EVENT_RATIO) : df.ROW_EVENT_RATIO[i] = 1000010
    /\ \E i \in 1..Len(df.ROW_EVENT_RATIO) : df.ROW_EVENT_RATIO[i] = 999990

\* C7: for every row-set with rows, whatever its column names, the validator
\* returns a fail verdict with a column-count issue (expected 16, actual
\* count) exactly when the number of columns differs from 16.
ColumnCountAlwaysReported ==
    (Exited /\ ValidatorCalled /\ HasRows) =>
        (ColumnsAreOff <=>
            /\ ValidatorReturned
            /\ flag
            /\ \E i \in 1..Len(out) :
                  /\ out[i].msg = "issue"
                  /\ out[i].issue = [check |-> "columns", expected |-> 16,
                                     got |-> df.columns])

\* C8: every run ends at the module's final sys.exit(exit_code), with the
\* value main() returned; no other place ends the process.
SingleExitPoint ==
    Exited => exitSite = "module" /\ exit_code = status

VerdictIsConsistent ==
    ValidatorReturned =>
        /\ flag <=> issues # <<>>
        /\ Len(issues) <= 3
        /\ NumListed("date") = (IF DateIsStale THEN 1 ELSE 0)
        /\ NumListed("columns") = (IF ColumnsAreOff THEN 1 ELSE 0)
        /\ NumListed("ratio") = (IF RatioIsOff THEN 1 ELSE 0)
        /\ \A i, j \in 1..Len(issues) :
              i < j => Rank(issues[i].check) < Rank(issues[j].check)

VerdictIsConsistentWitness ==
    ValidatorReturned /\ Len(issues) = 3 /\ flag

====
